---- MODULE Spec2Model ----
(***************************************************************************)
(* tiramisu (src/main.go): data.json -> Preprocess -> ResolveRelations ->  *)
(* one SVG per component.  Components live on a heap (a sequence indexed   *)
(* by address); a *Component is an address.  Text is a sequence of         *)
(* one-character strings.                                                  *)
(***************************************************************************)
EXTENDS Integers, Sequences, FiniteSets, TLC

\* ---------------------------------------------------------------- bounds
\* Longest input (number of entries of data.json).
MaxEntries == 2
\* Most directReferences in the whole input, summed over the entries.
MaxTotalRefs == 3

\* ------------------------------------------------------------- constants
MeasureSheet == "MeasureSheet"
OtherType == "Dimension"
IGNORE_WITH_PARENT_ID ==
    {24200, 24225, 24532, 25061, 25083, 24413, 24374, 24738, 25211, 230, 23795}
\* The character class [0-9\.] of NAME_REGEX.
NameClass == {"0", "1", "2", "3", "4", "5", "6", "7", "8", "9", "."}
NL == "\n"

\* ------------------------------------------------------------ input sets
\* Identifiers that entries carry, and identifiers that references name
\* (3 is the identifier of no entry).
Ids == {1, 2}
Targets == Ids \cup {3}
\* "1.2 A" and "Un": one name with a number code, one without.
NameCoded == <<"1", ".", "2", " ", "A">>
NamePlain == <<"U", "n">>
\* An archive folder (the first of IGNORE_WITH_PARENT_ID) and a parent folder
\* that is none.
DeniedParent == 24200
FreeParent == DeniedParent + 1

\* What an entry is besides its references.
Kind(id, parent, name, type, folder) ==
    [Id |-> id, ParentId |-> parent, Name |-> name, TypeName |-> type,
     IsFolder |-> folder]

\* Measure sheets: two identifiers under one name, one identifier under two
\* names; plus one entry of another type.
GraphKinds ==
    {Kind(1, FreeParent, NameCoded, MeasureSheet, FALSE),
     Kind(2, FreeParent, NameCoded, MeasureSheet, FALSE),
     Kind(2, FreeParent, NamePlain, MeasureSheet, FALSE),
     Kind(2, FreeParent, NamePlain, OtherType, FALSE)}

\* Entries that differ in every field the filter reads.
FilterKinds ==
    {Kind(id, parent, NameCoded, type, folder) :
        id \in Ids, parent \in {FreeParent, DeniedParent},
        type \in {MeasureSheet, OtherType}, folder \in BOOLEAN}

\* Measure sheets whose name follows the identifier.
MainKinds ==
    {Kind(1, FreeParent, NameCoded, MeasureSheet, FALSE),
     Kind(2, FreeParent, NamePlain, MeasureSheet, FALSE)}

RECURSIVE Sum(_)
Sum(l) == IF l = <<>> THEN 0 ELSE l[1] + Sum(Tail(l))

\* The numbers of references of the entries of an input.
Shapes ==
    {l \in UNION {[1..n -> 0..MaxTotalRefs] : n \in 1..MaxEntries} :
        Sum(l) <= MaxTotalRefs}

\* The input whose k-th entry is kinds[k] with lens[k] references, the
\* targets of all references listed in tg.
Input(kinds, lens, tg) ==
    [k \in 1..Len(lens) |->
        [Id |-> kinds[k].Id, ParentId |-> kinds[k].ParentId,
         Name |-> kinds[k].Name, TypeName |-> kinds[k].TypeName,
         IsFolder |-> kinds[k].IsFolder,
         DirectReferences |->
            [m \in 1..lens[k] |-> [Id |-> tg[Sum(SubSeq(lens, 1, k - 1)) + m]]]]]

\* ----------------------------------------------------------------- state
VARIABLES
    entries,        \* main: the parsed data.json
    preprocessed,   \* Preprocess: the slice being built / main: its result
    heap,           \* every Component allocated by AsComponent, by address
    store,          \* ResolveRelations: map[int]*Component (id -> address)
    pc,             \* where the run is
    i,              \* index of the entry a loop is at
    j,              \* index of the reference the inner wiring loop is at
    pending,        \* keys a range over store has still to visit
    saved,          \* identifiers whose file was written, in order
    files,          \* the diagrams/ directory: path -> bytes
    failed          \* identifiers at which compile, render or write failed

vars == <<entries, preprocessed, heap, store, pc, i, j, pending, saved, files, failed>>

\* --------------------------------------------------------------- helpers
Range(s) == {s[k] : k \in DOMAIN s}
Count(x, s) == Cardinality({k \in DOMAIN s : s[k] = x})
Min(S) == CHOOSE x \in S : \A y \in S : x <= y

\* AsComponent
AsComponent(e) ==
    [Id |-> e.Id, Name |-> e.Name, TypeName |-> e.TypeName,
     Dependencies |-> <<>>, Dependents |-> <<>>]

\* c.AddDependency(dep), c and dep addresses of the heap h
AddDependency(h, c, dep) == [h EXCEPT ![c].Dependencies = Append(@, dep)]

\* c.AddDependent(dep)
AddDependent_Once(h, c, dep) ==
    IF dep \in Range(h[c].Dependents) THEN h
    ELSE [h EXCEPT ![c].Dependents = Append(@, dep)]
AddDependent(h, c, dep) == [h EXCEPT ![c].Dependents = Append(@, dep)]

\* ShortName: FindStringSubmatch of ^([0-9\.]+).* gives the longest leading
\* run of class characters; without one the name itself.
ShortName(c) ==
    LET name == c.Name
        stop == {k \in 1..Len(name) : name[k] \notin NameClass}
        n == IF stop = {} THEN Len(name) ELSE Min(stop) - 1
    IN  IF n >= 1 THEN SubSeq(name, 1, n) ELSE name

\* fmt.Sprintf("'%s' -> '%s'", a, b)
Arrow == <<"'", " ", "-", ">", " ", "'">>
Relation(a, b) == <<"'">> \o a \o Arrow \o b \o <<"'">>

\* strings.Join(lines, "\n")
RECURSIVE Join(_)
Join(lines) ==
    IF lines = <<>> THEN <<>>
    ELSE IF Len(lines) = 1 THEN lines[1]
    ELSE lines[1] \o <<NL>> \o Join(Tail(lines))

\* UpstreamDiagram: the loop over c.Dependencies, then strings.Join
UpstreamDiagram_NoSelfCheck(h, c) ==
    LET kept == SelectSeq(c.Dependencies,
                    LAMBDA dep : ~(h[dep].TypeName # MeasureSheet))
        relations == [k \in 1..Len(kept) |->
                         Relation(ShortName(h[kept[k]]), ShortName(c))]
    IN  Join(relations)
UpstreamDiagram(h, c) ==
    LET kept == SelectSeq(c.Dependencies,
                    LAMBDA dep : ~(h[dep].TypeName # MeasureSheet) /\ ~(h[dep].Id = c.Id))
        relations == [k \in 1..Len(kept) |->
                         Relation(ShortName(h[kept[k]]), ShortName(c))]
    IN  Join(relations)

\* DownstreamDiagram: the loop over c.Dependents, then strings.Join
DownstreamDiagram_NoSelfCheck(h, c) ==
    LET kept == SelectSeq(c.Dependents,
                    LAMBDA dep : ~(h[dep].TypeName # MeasureSheet))
        relations == [k \in 1..Len(kept) |->
                         Relation(ShortName(c), ShortName(h[kept[k]]))]
    IN  Join(relations)
DownstreamDiagram(h, c) ==
    LET kept == SelectSeq(c.Dependents,
                    LAMBDA dep : ~(h[dep].TypeName # MeasureSheet) /\ ~(h[dep].Id = c.Id))
        relations == [k \in 1..Len(kept) |->
                         Relation(ShortName(c), ShortName(h[kept[k]]))]
    IN  Join(relations)

\* FullDiagram: fmt.Sprintf("%s\n%s", upstream, downstream)
FullDiagram(h, c) == UpstreamDiagram(h, c) \o <<NL>> \o DownstreamDiagram(h, c)

\* filepath.Join("./diagrams/", ShortName + ".svg")
SvgPath(c) == <<"diagrams/">> \o ShortName(c) \o <<".svg">>

\* What RenderSvg returns: the image of the compiled contents, or no bytes
\* when Compile or Render returned an error (which RenderSvg discards).
Svg(contents) == [svg |-> contents]
NoBytes == <<>>

\* os.WriteFile(path, bytes)
WriteFile(fs, path, bytes) ==
    [p \in DOMAIN fs \cup {path} |-> IF p = path THEN bytes ELSE fs[p]]

\* the condition under which Preprocess appends an entry
Keeps_IdDenied(e) ==
    /\ ~e.IsFolder
    /\ ~(Len(e.DirectReferences) = 0)
    /\ ~(e.Id \in IGNORE_WITH_PARENT_ID)
    /\ ~(e.TypeName # MeasureSheet)
Keeps_AnyType(e) ==
    /\ ~e.IsFolder
    /\ ~(Len(e.DirectReferences) = 0)
    /\ ~(e.ParentId \in IGNORE_WITH_PARENT_ID)
Keeps(e) ==
    /\ ~e.IsFolder
    /\ ~(Len(e.DirectReferences) = 0)
    /\ ~(e.ParentId \in IGNORE_WITH_PARENT_ID)
    /\ ~(e.TypeName # MeasureSheet)

\* store[id] = addr
StorePut_KeepFirst(s, id, addr) ==
    [k \in DOMAIN s \cup {id} |-> IF k \in DOMAIN s THEN s[k] ELSE addr]
StorePut(s, id, addr) ==
    [k \in DOMAIN s \cup {id} |-> IF k = id THEN addr ELSE s[k]]

\* delete(store, id)
StoreDelete(s, id) == [k \in DOMAIN s \ {id} |-> s[k]]

\* len(comp.Dependents) == 0 && len(comp.Dependencies) == 0
IsIsolated_Either(c) == Len(c.Dependents) = 0 \/ Len(c.Dependencies) = 0
IsIsolated_NoDependents(c) == Len(c.Dependents) = 0
IsIsolated(c) == Len(c.Dependents) = 0 /\ Len(c.Dependencies) = 0

\* ------------------------------------------------------------------ init
InitWith(in) ==
    /\ entries = in
    /\ preprocessed = <<>>
    /\ heap = <<>>
    /\ store = <<>>
    /\ pc = "preprocess"
    /\ i = 1
    /\ j = 1
    /\ pending = {}
    /\ saved = <<>>
    /\ files = <<>>
    /\ failed = {}

InitOver(kindSet, targetSet) ==
    \E lens \in Shapes :
    \E kinds \in [1..Len(lens) -> kindSet] :
    \E tg \in [1..Sum(lens) -> targetSet] :
        InitWith(Input(kinds, lens, tg))

Init == InitOver(MainKinds, Targets)
InitBuild == InitOver(GraphKinds, Targets)
InitFilter == InitOver(FilterKinds, {1})

\* ------------------------------------------------------------ Preprocess
\* one iteration of the loop over entries
PreprocessEntry ==
    /\ pc = "preprocess"
    /\ i <= Len(entries)
    /\ preprocessed' = IF Keeps(entries[i]) THEN Append(preprocessed, entries[i])
                       ELSE preprocessed
    /\ i' = i + 1
    /\ UNCHANGED <<entries, heap, store, pc, j, pending, saved, files, failed>>

\* return preprocessed; ResolveRelations: store := make(map)
PreprocessReturn ==
    /\ pc = "preprocess"
    /\ i > Len(entries)
    /\ pc' = "materialize"
    /\ i' = 1
    /\ UNCHANGED <<entries, preprocessed, heap, store, j, pending, saved, files, failed>>

\* ------------------------------------------------------ ResolveRelations
\* pass 1, one iteration: store[entry.Id] = entry.AsComponent()
Materialize ==
    /\ pc = "materialize"
    /\ i <= Len(preprocessed)
    /\ heap' = Append(heap, AsComponent(preprocessed[i]))
    /\ store' = StorePut(store, preprocessed[i].Id, Len(heap) + 1)
    /\ i' = i + 1
    /\ UNCHANGED <<entries, preprocessed, pc, j, pending, saved, files, failed>>

MaterializeDone ==
    /\ pc = "materialize"
    /\ i > Len(preprocessed)
    /\ pc' = "wire"
    /\ i' = 1
    /\ j' = 1
    /\ UNCHANGED <<entries, preprocessed, heap, store, pending, saved, files, failed>>

\* pass 2, one iteration of the inner loop over entry.DirectReferences
Wire_StopAtUnresolved ==
    /\ pc = "wire"
    /\ i <= Len(preprocessed)
    /\ j <= Len(preprocessed[i].DirectReferences)
    /\ LET entry == preprocessed[i]
           ref == entry.DirectReferences[j]
       IN  IF ref.Id \in DOMAIN store
           THEN /\ heap' = AddDependent(
                               AddDependency(heap, store[entry.Id], store[ref.Id]),
                               store[ref.Id], store[entry.Id])
                /\ j' = j + 1
           ELSE /\ heap' = heap
                /\ j' = Len(entry.DirectReferences) + 1
    /\ UNCHANGED <<entries, preprocessed, store, pc, i, pending, saved, files, failed>>
Wire ==
    /\ pc = "wire"
    /\ i <= Len(preprocessed)
    /\ j <= Len(preprocessed[i].DirectReferences)
    /\ LET entry == preprocessed[i]
           ref == entry.DirectReferences[j]
       IN  heap' = IF ref.Id \in DOMAIN store
                   THEN AddDependent(
                            AddDependency(heap, store[entry.Id], store[ref.Id]),
                            store[ref.Id], store[entry.Id])
                   ELSE heap
    /\ j' = j + 1
    /\ UNCHANGED <<entries, preprocessed, store, pc, i, pending, saved, files, failed>>

\* the inner loop ends: next entry
WireNextEntry ==
    /\ pc = "wire"
    /\ i <= Len(preprocessed)
    /\ j > Len(preprocessed[i].DirectReferences)
    /\ i' = i + 1
    /\ j' = 1
    /\ UNCHANGED <<entries, preprocessed, heap, store, pc, pending, saved, files, failed>>

\* the outer loop ends: the range over store of pass 3 starts
WireDone ==
    /\ pc = "wire"
    /\ i > Len(preprocessed)
    /\ pc' = "prune"
    /\ pending' = DOMAIN store
    /\ UNCHANGED <<entries, preprocessed, heap, store, i, j, saved, files, failed>>

\* pass 3, one iteration of the range over store (Go visits the keys in no
\* fixed order)
Prune ==
    /\ pc = "prune"
    /\ \E id \in pending :
         LET comp == heap[store[id]]
         IN  /\ store' = IF IsIsolated(comp) THEN StoreDelete(store, comp.Id)
                         ELSE store
             /\ pending' = pending \ {id}
    /\ UNCHANGED <<entries, preprocessed, heap, pc, i, j, saved, files, failed>>

\* return store; main starts its range over store
PruneReturn ==
    /\ pc = "prune"
    /\ pending = {}
    /\ pc' = "built"
    /\ pending' = DOMAIN store
    /\ UNCHANGED <<entries, preprocessed, heap, store, i, j, saved, files, failed>>

\* ------------------------------------------------------------------ main
\* one iteration of main's loop: comp.SaveAsSvg().  RenderSvg discards the
\* errors of Compile and Render; a nil diagram handed to Render either
\* panics or comes back without bytes; a WriteFile error is log.Fatal.
SaveAsSvg ==
    /\ pc = "built"
    /\ \E id \in pending :
       \E compile \in {"ok", "error"}, render \in {"ok", "error"},
          nilDiagram \in {"panic", "returns"}, write \in {"ok", "error"} :
         LET c == heap[store[id]]
             contents == FullDiagram(heap, c)
             discarded == compile = "error" \/ render = "error"
             out == IF discarded THEN NoBytes ELSE Svg(contents)
         IN  IF compile = "error" /\ nilDiagram = "panic"
             THEN /\ pc' = "panic"
                  /\ failed' = failed \cup {id}
                  /\ UNCHANGED <<pending, saved, files>>
             ELSE IF write = "error"
             THEN /\ pc' = "fatal"
                  /\ failed' = failed \cup {id}
                  /\ UNCHANGED <<pending, saved, files>>
             ELSE /\ files' = WriteFile(files, SvgPath(c), out)
                  /\ saved' = Append(saved, id)
                  /\ failed' = IF discarded THEN failed \cup {id} ELSE failed
                  /\ pending' = pending \ {id}
                  /\ pc' = pc
    /\ UNCHANGED <<entries, preprocessed, heap, store, i, j>>

\* the loop ends and main returns
MainReturn ==
    /\ pc = "built"
    /\ pending = {}
    /\ pc' = "done"
    /\ UNCHANGED <<entries, preprocessed, heap, store, i, j, pending, saved, files, failed>>

\* -------------------------------------------------------- specifications
NextBuild ==
    \/ PreprocessEntry
    \/ PreprocessReturn
    \/ Materialize
    \/ MaterializeDone
    \/ Wire
    \/ WireNextEntry
    \/ WireDone
    \/ Prune
    \/ PruneReturn

Next ==
    \/ NextBuild
    \/ SaveAsSvg
    \/ MainReturn

\* a run of main
Spec == Init /\ [][Next]_vars
\* Preprocess then ResolveRelations, on inputs that vary the graph
SpecBuild == InitBuild /\ [][NextBuild]_vars
\* Preprocess then ResolveRelations, on inputs that vary what the filter reads
SpecFilter == InitFilter /\ [][NextBuild]_vars

\* ------------------------------------------------- what the claims speak of
\* ResolveRelations has returned.
Built == pc \in {"built", "done", "fatal", "panic"}
\* Pass 1 is over.
Materialized == pc \notin {"preprocess", "materialize"}

Addrs == DOMAIN heap
Degree(a) == Len(heap[a].Dependencies) + Len(heap[a].Dependents)
Neighbours(a) == Range(heap[a].Dependencies) \cup Range(heap[a].Dependents)
\* The addresses the mapping held when pass 1 ended: the last Component
\* allocated for each identifier.
Live == {a \in Addrs : \A b \in Addrs : b > a => heap[b].Id # heap[a].Id}

\* A record the filter is to keep, in the words of the filter stage.
ValidRecord(e) ==
    /\ e.IsFolder = FALSE
    /\ e.DirectReferences # <<>>
    /\ e.ParentId \notin IGNORE_WITH_PARENT_ID
    /\ e.TypeName = "MeasureSheet"

\* The valid records of the first n entries, in input order.
RECURSIVE ValidPrefix(_)
ValidPrefix(n) ==
    IF n = 0 THEN <<>>
    ELSE IF ValidRecord(entries[n]) THEN Append(ValidPrefix(n - 1), entries[n])
    ELSE ValidPrefix(n - 1)

Filtered == ValidPrefix(Len(entries))
\* The identifiers of the filtered records f.
IdsOf(f) == {f[k].Id : k \in DOMAIN f}
\* The address of the Component the mapping holds for id after pass 1: the
\* position in f of the last record with that identifier.
LastOf(f, id) == CHOOSE k \in DOMAIN f :
    /\ f[k].Id = id
    /\ \A m \in DOMAIN f : m > k => f[m].Id # id

\* The text cut at its newlines.
RECURSIVE Split(_)
Split(text) ==
    LET nls == {k \in DOMAIN text : text[k] = NL}
    IN  IF nls = {} THEN <<text>>
        ELSE <<SubSeq(text, 1, Min(nls) - 1)>>
                 \o Split(SubSeq(text, Min(nls) + 1, Len(text)))

\* The lines of a payload that hold a descriptor, read back as
\* <<source label, destination label>>.
ReadRelation(line) ==
    LET at == Min({k \in 1..(Len(line) - Len(Arrow) + 1) :
                       SubSeq(line, k, k + Len(Arrow) - 1) = Arrow})
    IN  <<SubSeq(line, 2, at - 1), SubSeq(line, at + Len(Arrow), Len(line) - 1)>>
Descriptors(text) ==
    LET lines == SelectSeq(Split(text), LAMBDA l : l # <<>>)
    IN  [k \in DOMAIN lines |-> ReadRelation(lines[k])]

\* The entries of a collection whose identifier is not id, in order.
RECURSIVE Others(_, _)
Others(coll, id) ==
    IF coll = <<>> THEN <<>>
    ELSE IF heap[coll[1]].Id = id THEN Others(Tail(coll), id)
    ELSE <<coll[1]>> \o Others(Tail(coll), id)

Up(a) == Descriptors(UpstreamDiagram(heap, heap[a]))
Down(a) == Descriptors(DownstreamDiagram(heap, heap[a]))

\* ---------------------------------------------------------------- claims
\* C1 (edge symmetry): in every state, for all Components A and B, A occurs
\* in B.Dependencies exactly as often as B occurs in A.Dependents; so after
\* each wiring step no edge exists in one direction only.
C1_EdgeSymmetry ==
    \A a \in Addrs : \A b \in Addrs :
        Count(a, heap[b].Dependencies) = Count(b, heap[a].Dependents)

\* a returned graph in which one record names another node twice
C1_Witness ==
    /\ Built
    /\ \E a \in Range(store) : \E b \in Range(store) :
        /\ a # b
        /\ Count(a, heap[b].Dependencies) >= 2
        /\ Count(b, heap[a].Dependents) >= 2

\* C2 (no dangling edges): once ResolveRelations has returned, every address
\* in a collection of a Node of the mapping is the address the mapping holds
\* under that Component's own identifier.
C2_NoDangling ==
    Built =>
        \A id \in DOMAIN store : \A n \in Neighbours(store[id]) :
            /\ heap[n].Id \in DOMAIN store
            /\ store[heap[n].Id] = n

\* a node was pruned and a node with edges remains
C2_Witness ==
    /\ Built
    /\ \E a \in Live : heap[a].Id \notin DOMAIN store
    /\ \E id \in DOMAIN store : Neighbours(store[id]) # {}

\* C3 (isolation pruning): once ResolveRelations has returned, the mapping
\* holds exactly the Components of pass 1 that have at least one edge, each
\* under its own identifier.
C3_IsolationPruning ==
    Built =>
        /\ Range(store) = {a \in Live : Degree(a) > 0}
        /\ \A id \in DOMAIN store : heap[store[id]].Id = id /\ Degree(store[id]) > 0

\* of two Components of pass 1 the one without edges is gone and the one
\* with edges is kept
C3_Witness ==
    /\ Built
    /\ Cardinality(Live) = 2
    /\ \E a \in Live : Degree(a) = 0 /\ heap[a].Id \notin DOMAIN store
    /\ \E a \in Live : Degree(a) > 0 /\ heap[a].Id \in DOMAIN store

\* C4 (filter correctness): while Preprocess runs, its slice is the valid
\* records among the entries visited so far, in input order and unchanged;
\* what it returns is the valid records of the whole input; and no step
\* changes the input.
C4_State ==
    /\ pc = "preprocess" => preprocessed = ValidPrefix(i - 1)
    /\ pc # "preprocess" => preprocessed = Filtered
C4_FilterCorrectness == [](C4_State) /\ [][entries' = entries]_vars

\* Preprocess returned the second of two entries, the first being in an
\* archive folder
C4_Witness ==
    /\ pc # "preprocess"
    /\ Len(entries) = 2
    /\ entries[1].ParentId \in IGNORE_WITH_PARENT_ID
    /\ preprocessed = <<entries[2]>>

\* The descriptors a collection is to give for the Component at a: one per
\* entry with another identifier, in collection order.
Labels(n, a, incoming) ==
    IF incoming THEN <<ShortName(heap[n]), ShortName(heap[a])>>
    ELSE <<ShortName(heap[a]), ShortName(heap[n])>>
Expected(coll, a, incoming) ==
    LET o == Others(coll, heap[a].Id)
    IN  [k \in DOMAIN o |-> Labels(o[k], a, incoming)]

\* The entries of a collection, other than a itself, that carry a's label.
Namesakes(coll, a) ==
    {k \in DOMAIN coll : coll[k] # a /\ ShortName(heap[coll[k]]) = ShortName(heap[a])}
SelfLabel(a) == <<ShortName(heap[a]), ShortName(heap[a])>>

\* C5 (self-loop suppression): a returned Node whose record references its
\* own identifier holds itself in both collections, yet each view has one
\* descriptor per entry other than the Node itself, and a descriptor from the
\* Node's label to the same label comes only from another Component that
\* carries that label, never from the self-entries, however many there are.
C5_SelfLoopSuppression ==
    Built =>
        \A id \in DOMAIN store :
            LET a == store[id]
                deps == heap[a].Dependencies
                dpts == heap[a].Dependents
            IN  a \in Range(deps) =>
                    /\ a \in Range(dpts)
                    /\ Len(Up(a)) = Len(deps) - Count(a, deps)
                    /\ Len(Down(a)) = Len(dpts) - Count(a, dpts)
                    /\ Count(SelfLabel(a), Up(a)) = Cardinality(Namesakes(deps, a))
                    /\ Count(SelfLabel(a), Down(a)) = Cardinality(Namesakes(dpts, a))

\* a Node that references itself twice and is referenced by another Node
C5_Witness ==
    /\ Built
    /\ \E id \in DOMAIN store :
        /\ Count(store[id], heap[store[id]].Dependencies) >= 2
        /\ Len(Down(store[id])) = 1
        /\ Down(store[id])[1][1] # Down(store[id])[1][2]

\* The references of the k-th record of f that name a record of f.
Resolved(f, k) ==
    SelectSeq(f[k].DirectReferences, LAMBDA r : r.Id \in IdsOf(f))
\* The records of f that carry id.
RecordsOf(f, id) == {k \in DOMAIN f : f[k].Id = id}
RECURSIVE SumResolved(_, _)
SumResolved(f, ks) ==
    IF ks = {} THEN 0
    ELSE LET k == CHOOSE x \in ks : TRUE
         IN  Len(Resolved(f, k)) + SumResolved(f, ks \ {k})

\* C6 (unresolved references are dropped silently): once ResolveRelations has
\* returned there is one Component per record that passed the filter (so a
\* record without references is none); the Component of an identifier has
\* one incoming entry per reference of its records that names a filtered
\* record, to that record's Component, and none for any other reference; and
\* an identifier whose references all go unresolved and that no filtered
\* record references is not in the mapping.
C6_UnresolvedDropped ==
    Built =>
        LET f == Filtered
        IN  /\ Len(heap) = Len(f)
            /\ \A a \in Addrs : heap[a].Id = f[a].Id
            /\ \A id \in IdsOf(f) :
                LET deps == heap[LastOf(f, id)].Dependencies
                    wired == SumResolved(f, RecordsOf(f, id))
                IN  /\ Len(deps) = wired
                    /\ \A t \in IdsOf(f) :
                        Count(LastOf(f, t), deps) =
                            Cardinality(UNION {
                                {<<k, n>> : n \in {m \in DOMAIN f[k].DirectReferences :
                                                      f[k].DirectReferences[m].Id = t}} :
                                k \in RecordsOf(f, id)})
                    /\ ( /\ wired = 0
                         /\ \A k \in DOMAIN f :
                                \A n \in DOMAIN f[k].DirectReferences :
                                    f[k].DirectReferences[n].Id # id )
                       => id \notin DOMAIN store

\* a record whose first reference names a record without references and whose
\* second reference is wired
C6_Witness ==
    /\ Built
    /\ \E k \in DOMAIN entries : \E z \in DOMAIN entries :
        /\ entries[z].DirectReferences = <<>>
        /\ Len(entries[k].DirectReferences) = 2
        /\ entries[k].DirectReferences[1].Id = entries[z].Id
        /\ entries[z].Id \notin DOMAIN store
        /\ entries[k].Id \in DOMAIN store
        /\ Len(heap[store[entries[k].Id]].Dependencies) = 1

\* C8 (neighbour-view content): for every returned Node, the upstream view is
\* one descriptor (neighbour label, own label) per incoming entry with another
\* identifier, in collection order and with repetitions; the downstream view
\* the same with (own label, neighbour label) over the outgoing entries; and
\* the full payload holds the upstream descriptors, then the downstream ones.
C8_NeighbourViews ==
    Built =>
        \A id \in DOMAIN store :
            LET a == store[id]
            IN  /\ Up(a) = Expected(heap[a].Dependencies, a, TRUE)
                /\ Down(a) = Expected(heap[a].Dependents, a, FALSE)
                /\ Descriptors(FullDiagram(heap, heap[a])) = Up(a) \o Down(a)

\* a Node with the same neighbour twice in its incoming collection
C8_Witness ==
    /\ Built
    /\ \E a \in Range(store) : \E b \in Range(store) :
        /\ a # b
        /\ Count(b, heap[a].Dependencies) = 2
        /\ Len(Up(a)) = 2
        /\ Up(a)[1] = Up(a)[2]
        /\ Len(Down(a)) = 1

\* The incoming collection that the records 1..n carrying id give: their
\* resolved references, in input order.
RECURSIVE WiredFor(_, _, _)
WiredFor(f, id, n) ==
    IF n = 0 THEN <<>>
    ELSE IF f[n].Id = id
    THEN LET refs == Resolved(f, n)
         IN  WiredFor(f, id, n - 1) \o [m \in DOMAIN refs |-> LastOf(f, refs[m].Id)]
    ELSE WiredFor(f, id, n - 1)

\* C9 (duplicate identifiers, last write wins): after pass 1 the mapping holds
\* for an identifier only the Component of the last filtered record carrying
\* it, with that record's name and type; the Components of the earlier
\* records have no entries and occur in no collection; and once
\* ResolveRelations has returned, the surviving Component's incoming
\* collection is the resolved references of all records carrying the
\* identifier, in input order.
C9_LastWriteWins ==
    Materialized =>
        LET f == Filtered
        IN  /\ Len(heap) = Len(f)
            /\ \A id \in IdsOf(f) :
                LET last == LastOf(f, id)
                IN  /\ pc = "wire" => id \in DOMAIN store
                    /\ id \in DOMAIN store => store[id] = last
                    /\ heap[last].Name = f[last].Name
                    /\ heap[last].TypeName = f[last].TypeName
                    /\ Built => heap[last].Dependencies = WiredFor(f, id, Len(f))
            /\ \A a \in Addrs \ Live :
                /\ Degree(a) = 0
                /\ \A b \in Addrs : a \notin Neighbours(b)

\* two filtered records share an identifier, differ in name, and each has a
\* reference that resolves
C9_Witness ==
    /\ Built
    /\ Len(Filtered) = 2
    /\ Filtered[1].Id = Filtered[2].Id
    /\ Filtered[1].Name # Filtered[2].Name
    /\ Resolved(Filtered, 1) # <<>>
    /\ Len(Resolved(Filtered, 2)) = 2
    /\ Filtered[1].Id \in DOMAIN store

\* C7 (all or first fatal), as claimed: a failure to compile, render or write
\* at a Node ends the run there with no file written for that Node, and a
\* run that ends without failure has saved every Node of the mapping once.
\* RenderSvg discards the errors of Compile and Render, so the run goes on
\* and writes a file for the Node: the code does not do this.
C7_AllOrFirstFatal ==
    /\ \A id \in failed :
        /\ pc \in {"fatal", "panic"}
        /\ id \notin Range(saved)
        /\ pending = DOMAIN store \ Range(saved)
    /\ pc = "done" =>
        /\ Range(saved) = DOMAIN store
        /\ Len(saved) = Cardinality(DOMAIN store)

\* The entries of the Component at a are all a itself, and there are some.
SelfOnly(a) == Neighbours(a) = {a}

\* C10 (a Node with self-edges only): once ResolveRelations has returned,
\* a Component of pass 1 whose entries are all itself is in the mapping, both
\* its views are empty and its payload holds no descriptor; a run that ends
\* has saved it, and the file written for it, when nothing failed at it and
\* no other Node was saved to the same path, is the image of that payload.
C10_SelfOnlyNode ==
    Built =>
        \A a \in Live :
            SelfOnly(a) =>
                LET id == heap[a].Id
                IN  /\ heap[a].Dependencies # <<>> /\ heap[a].Dependents # <<>>
                    /\ id \in DOMAIN store /\ store[id] = a
                    /\ UpstreamDiagram(heap, heap[a]) = <<>>
                    /\ DownstreamDiagram(heap, heap[a]) = <<>>
                    /\ Descriptors(FullDiagram(heap, heap[a])) = <<>>
                    /\ pc = "done" => id \in Range(saved)
                    /\ ( /\ id \in Range(saved)
                         /\ id \notin failed
                         /\ \A o \in Range(saved) \ {id} :
                                SvgPath(heap[store[o]]) # SvgPath(heap[a]) )
                       => files[SvgPath(heap[a])] = Svg(<<NL>>)

\* a run that ended without failure and saved a Node with self-edges only
C10_Witness ==
    /\ pc = "done"
    /\ failed = {}
    /\ \E a \in Live :
        /\ SelfOnly(a)
        /\ heap[a].Id \in Range(saved)
        /\ files[SvgPath(heap[a])] = Svg(<<NL>>)

====
